---- MODULE Spec2Model ----
(***************************************************************************)
(* Wood inventory (src/wood.cpp): WoodAction variants, WoodItem and        *)
(* WoodInventory, with `double` modelled bit for bit as IEEE-754 binary64. *)
(***************************************************************************)
EXTENDS Integers, Sequences, FiniteSets

(***************************************************************************)
(* Natural numbers of arbitrary size, as little-endian sequences of limbs  *)
(* in base 2^13 (a 52-bit fraction is four limbs): the 106-bit product of  *)
(* two binary64 significands does not fit the checker's machine integers.  *)
(***************************************************************************)
LimbBits == 13

LimbBase == 2 ^ LimbBits

Max(x, y) == IF x >= y THEN x ELSE y

\* F(v), with v evaluated once and bound to a value before F is applied
Let(v, F(_)) == CHOOSE r \in {F(x) : x \in {v}} : TRUE

Limb(x, k) == IF k >= 1 /\ k <= Len(x) THEN x[k] ELSE 0

RECURSIVE ColSum(_, _, _, _)
\* sum of a[i] * b[k + 1 - i] for i in 1..i
ColSum(a, b, k, i) ==
    IF i = 0 THEN 0
    ELSE Limb(a, i) * Limb(b, k + 1 - i) + ColSum(a, b, k, i - 1)

RECURSIVE Carry(_, _, _, _)
\* limbs k..n of the number whose k-th column is col[k], with carry c coming in
Carry(col, k, n, c) ==
    IF k > n THEN <<>>
    ELSE Let(col[k] + c,
             LAMBDA t : <<t % LimbBase>> \o Carry(col, k + 1, n, t \div LimbBase))

BMul(a, b) ==
    Let([k \in 1..(Len(a) + Len(b)) |-> ColSum(a, b, k, Len(a))],
        LAMBDA col : Carry(col, 1, Len(col), 0))

BMulSmall(a, k) == BMul(a, <<k % LimbBase, k \div LimbBase>>)

RECURSIVE TopLimb(_, _)
\* index of the highest nonzero limb among 1..k, 0 when there is none
TopLimb(x, k) == IF k = 0 THEN 0 ELSE IF x[k] # 0 THEN k ELSE TopLimb(x, k - 1)

RECURSIVE IntBits(_)
IntBits(v) == IF v = 0 THEN 0 ELSE 1 + IntBits(v \div 2)

BitLen(x) ==
    Let(TopLimb(x, Len(x)),
        LAMBDA h : IF h = 0 THEN 0 ELSE (h - 1) * LimbBits + IntBits(x[h]))

BIsZero(x) == TopLimb(x, Len(x)) = 0

\* bit i (from 0) of x
BBit(x, i) == (Limb(x, (i \div LimbBits) + 1) \div (2 ^ (i % LimbBits))) % 2

\* whether the low n bits of x are all zero
BLowZero(x, n) ==
    LET d == n \div LimbBits
        r == n % LimbBits
    IN /\ \A k \in 1..d : Limb(x, k) = 0
       /\ Limb(x, d + 1) % (2 ^ r) = 0

\* floor(x / 2^n)
BShr(x, n) ==
    LET d == n \div LimbBits
        r == n % LimbBits
    IN [k \in 1..Len(x) |->
          (Limb(x, k + d) \div (2 ^ r))
          + (Limb(x, k + d + 1) % (2 ^ r)) * (2 ^ (LimbBits - r))]

\* x * 2^n
BShl(x, n) ==
    LET d == n \div LimbBits
        r == n % LimbBits
    IN [k \in 1..(Len(x) + d + 1) |->
          ((Limb(x, k - d) * (2 ^ r)) % LimbBase)
          + (Limb(x, k - d - 1) \div (2 ^ (LimbBits - r)))]

BInc(x) ==
    Let([k \in 1..(Len(x) + 1) |-> Limb(x, k) + (IF k = 1 THEN 1 ELSE 0)],
        LAMBDA col : Carry(col, 1, Len(col), 0))

RECURSIVE BCmpFrom(_, _, _)
\* -1, 0, 1 as x <, =, > y, comparing limbs k down to 1
BCmpFrom(x, y, k) ==
    IF k = 0 THEN 0
    ELSE IF Limb(x, k) > Limb(y, k) THEN 1
    ELSE IF Limb(x, k) < Limb(y, k) THEN -1
    ELSE BCmpFrom(x, y, k - 1)

BCmp(x, y) == BCmpFrom(x, y, Max(Len(x), Len(y)))

(***************************************************************************)
(* double: IEEE-754 binary64, by its bit fields.  s is the sign bit, e the *)
(* 11-bit biased exponent, f the 52-bit fraction as four limbs.            *)
(***************************************************************************)
ExpMax == 2 ^ 11 - 1

\* e + ExpShift is the power of two that scales the 53-bit integer significand
ExpShift == -(2 ^ 10 - 1) - 52

SigBits == 52 + 1

Dbl(s, e, f) == [s |-> s, e |-> e, f |-> f]

ZeroFrac == <<0, 0, 0, 0>>

IsNaN(d) == d.e = ExpMax /\ d.f # ZeroFrac

IsInf(d) == d.e = ExpMax /\ d.f = ZeroFrac

IsZero(d) == d.e = 0 /\ d.f = ZeroFrac

IsFinite(d) == d.e < ExpMax

\* the quiet NaN a NaN operand turns into (the top fraction bit set)
Quiet(d) == [d EXCEPT !.f[4] = (d.f[4] % (LimbBase \div 2)) + (LimbBase \div 2)]

\* the default NaN of an invalid operation (x86: sign set, quiet bit only)
DefaultNaN == Dbl(1, ExpMax, <<0, 0, 0, LimbBase \div 2>>)

\* the significand as a 53-bit integer: the hidden bit is 1 unless subnormal
Sig(d) == d.f \o <<IF d.e = 0 THEN 0 ELSE 1>>

\* d = Sig(d) * 2^Exp2(d)
Exp2(d) == Max(d.e, 1) + ExpShift

\* Whether P / 2^sh, truncated to q0, rounds up: to nearest, ties to even.
RoundUp(P, q0, sh) ==
    /\ sh > 0
    /\ BBit(P, sh - 1) = 1
    /\ \/ sh > 1 /\ ~BLowZero(P, sh - 1)
       \/ BBit(q0, 0) = 1

\* P / 2^sh rounded to an integer
Quotient(P, sh) ==
    Let(IF sh >= 0 THEN BShr(P, sh) ELSE BShl(P, -sh),
        LAMBDA q0 : IF RoundUp(P, q0, sh) THEN BInc(q0) ELSE q0)

\* The double of sign s and value q * 2^x, q an integer of n bits, n <= 54:
\* subnormal below 53 bits, and carried into the next exponent at 54.
Pack(s, q, n, x) ==
    Let(IF n > SigBits THEN x - ExpShift + 1
        ELSE IF n = SigBits THEN x - ExpShift
        ELSE 0,
        LAMBDA e : IF e >= ExpMax THEN Dbl(s, ExpMax, ZeroFrac)
                   ELSE IF n > SigBits THEN Dbl(s, e, ZeroFrac)
                   ELSE Dbl(s, e, <<Limb(q, 1), Limb(q, 2), Limb(q, 3), Limb(q, 4)>>))

\* The product P * 2^e2 with sign s as a double; sh is the number of low bits
\* of P that do not fit the result's significand.
RoundPack(s, P, e2, sh) ==
    Let(Quotient(P, sh), LAMBDA q : Let(BitLen(q), LAMBDA n : Pack(s, q, n, e2 + sh)))

\* the product of the finite nonzero doubles a and b
MulFinite(a, b) ==
    Let(BMul(Sig(a), Sig(b)),
        LAMBDA P : RoundPack((a.s + b.s) % 2, P, Exp2(a) + Exp2(b),
                             Max(BitLen(P) - SigBits,
                                 (1 + ExpShift) - (Exp2(a) + Exp2(b)))))

\* a * b on doubles (round to nearest even, the default rounding mode)
MulDouble(a, b) ==
    IF IsNaN(a) THEN Quiet(a)
    ELSE IF IsNaN(b) THEN Quiet(b)
    ELSE IF IsInf(a) \/ IsInf(b)
         THEN IF IsZero(a) \/ IsZero(b) THEN DefaultNaN
              ELSE Dbl((a.s + b.s) % 2, ExpMax, ZeroFrac)
    ELSE IF IsZero(a) \/ IsZero(b) THEN Dbl((a.s + b.s) % 2, 0, ZeroFrac)
    ELSE MulFinite(a, b)

\* -1, 0, 1 as |a| <, =, > |b|, for operands that are not NaN
MagCmp(a, b) ==
    IF a.e > b.e THEN 1
    ELSE IF a.e < b.e THEN -1
    ELSE BCmp(a.f, b.f)

\* a < b on doubles: false when either is NaN, and -0 is not below +0
LtDouble(a, b) ==
    IF IsNaN(a) \/ IsNaN(b) THEN FALSE
    ELSE IF IsZero(a) /\ IsZero(b) THEN FALSE
    ELSE IF a.s # b.s THEN a.s = 1
    ELSE IF a.s = 0 THEN MagCmp(a, b) = -1
    ELSE MagCmp(a, b) = 1

\* a > b on doubles
GtDouble(a, b) == LtDouble(b, a)

\* a == b on doubles: false when either is NaN, and -0 equals +0
EqDouble(a, b) ==
    /\ ~IsNaN(a)
    /\ ~IsNaN(b)
    /\ (a = b \/ (IsZero(a) /\ IsZero(b)))

(***************************************************************************)
(* The double literals of the program and of the inputs.                   *)
(***************************************************************************)
\* 0.8, the factor of DryWood::perform (0x3FE999999999999A)
D0_8 == Dbl(0, 1022, <<6554, 3276, 1638, 4915>>)

D2_5 == Dbl(0, 1024, <<0, 0, 0, 2048>>)

D8 == Dbl(0, 1026, <<0, 0, 0, 0>>)

D10 == Dbl(0, 1026, <<0, 0, 0, 2048>>)

D12 == Dbl(0, 1026, <<0, 0, 0, 4096>>)

D15 == Dbl(0, 1026, <<0, 0, 0, 7168>>)

D20 == Dbl(0, 1027, <<0, 0, 0, 2048>>)

DNeg10 == Dbl(1, 1026, <<0, 0, 0, 2048>>)

DZero == Dbl(0, 0, ZeroFrac)

\* subnormal doubles: 2 and 3 units of 2^-1074
DSub2 == Dbl(0, 0, <<2, 0, 0, 0>>)

DSub3 == Dbl(0, 0, <<3, 0, 0, 0>>)

DInf == Dbl(0, ExpMax, ZeroFrac)

DNaN == Dbl(0, ExpMax, <<0, 0, 0, LimbBase \div 2>>)

(***************************************************************************)
(* The heap.  A pointer is an index: actions[p] is the WoodAction object   *)
(* at p, items[i] the WoodItem at i, inventories[v] the `items` vector of  *)
(* the WoodInventory v.  The other variables record history.               *)
(***************************************************************************)
VARIABLES
    actions,      \* the WoodAction objects constructed so far
    items,        \* the WoodItem objects constructed so far
    inventories,  \* per WoodInventory, its vector of WoodItem pointers
    phase,        \* "run", or "done" once the inventories went out of scope
    actionFrees,  \* per WoodAction, how many times it was deleted
    itemFrees,    \* per WoodItem, how many times it was deleted
    created,      \* history: each WoodItem as its constructor left it
    added,        \* history: per WoodInventory, the arguments of addItem
    calls,        \* history: per WoodItem, the process() calls made on it
    lastCall      \* history: the last process() or processAll() call

vars == <<actions, items, inventories, phase, actionFrees, itemFrees,
          created, added, calls, lastCall>>

(***************************************************************************)
(* WoodAction and its four variants.                                       *)
(***************************************************************************)
CutWood(len) ==
    [kind |-> "CutWood", cut_length |-> len, inner_action |-> 0,
     condition_type |-> "", condition_value |-> DZero]

DryWood ==
    [kind |-> "DryWood", cut_length |-> DZero, inner_action |-> 0,
     condition_type |-> "", condition_value |-> DZero]

TreatWood ==
    [kind |-> "TreatWood", cut_length |-> DZero, inner_action |-> 0,
     condition_type |-> "", condition_value |-> DZero]

ConditionalTreatment(action, cond, val) ==
    [kind |-> "ConditionalTreatment", cut_length |-> DZero,
     inner_action |-> action, condition_type |-> cond, condition_value |-> val]

(***************************************************************************)
(* WoodItem.                                                               *)
(***************************************************************************)
WoodItem(t, thick, moisture, treated, steps) ==
    [type |-> t, thickness |-> thick, moisture_content |-> moisture,
     is_treated |-> treated, processing_steps |-> steps]

getType(item) == item.type

getThickness(item) == item.thickness

getMoisture(item) == item.moisture_content

isTreated(item) == item.is_treated

setMoisture(item, m) == [item EXCEPT !.moisture_content = m]

setTreated(item, t) == [item EXCEPT !.is_treated = t]

(***************************************************************************)
(* perform.  Each operator returns the item as the call leaves it and, as  *)
(* history, the virtual calls made: which action, at which nesting depth,  *)
(* on which item state, leaving which item state.                          *)
(***************************************************************************)
Ran(item, sub) == [item |-> item, sub |-> sub]

\* CutWood::perform as it would be if cutting shaved the item
CutWoodPerformShaving(item) ==
    Ran([item EXCEPT !.thickness = MulDouble(@, D0_8)], <<>>)

CutWoodPerform(item) == Ran(item, <<>>)

\* DryWood::perform as it would be if it applied the factor twice
DryWoodPerformTwice(item) ==
    Ran(setMoisture(item, MulDouble(MulDouble(getMoisture(item), D0_8), D0_8)),
        <<>>)

\* DryWood::perform as it would be if the product were never stored
DryWoodPerformNoStore(item) == Ran(item, <<>>)

DryWoodPerform(item) ==
    Ran(setMoisture(item, MulDouble(getMoisture(item), D0_8)), <<>>)

TreatWoodPerform(item) == Ran(setTreated(item, TRUE), <<>>)

RECURSIVE perform(_, _, _, _)

\* ConditionalTreatment::perform as it would be with >= for >
ConditionalTreatmentPerformAtLeast(heap, self, item, depth) ==
    IF /\ self.condition_type = "MoistureAbove"
       /\ ~IsNaN(getMoisture(item))
       /\ ~IsNaN(self.condition_value)
       /\ ~LtDouble(getMoisture(item), self.condition_value)
    THEN perform(heap, self.inner_action, item, depth + 1)
    ELSE Ran(item, <<>>)

\* ConditionalTreatment::perform as it would be with < for >
ConditionalTreatmentPerformBelow(heap, self, item, depth) ==
    IF /\ self.condition_type = "MoistureAbove"
       /\ LtDouble(getMoisture(item), self.condition_value)
    THEN perform(heap, self.inner_action, item, depth + 1)
    ELSE Ran(item, <<>>)

\* ConditionalTreatment::perform as it would be without the test of the kind
ConditionalTreatmentPerformAnyKind(heap, self, item, depth) ==
    IF GtDouble(getMoisture(item), self.condition_value)
    THEN perform(heap, self.inner_action, item, depth + 1)
    ELSE Ran(item, <<>>)

ConditionalTreatmentPerform(heap, self, item, depth) ==
    IF /\ self.condition_type = "MoistureAbove"
       /\ GtDouble(getMoisture(item), self.condition_value)
    THEN perform(heap, self.inner_action, item, depth + 1)
    ELSE Ran(item, <<>>)

\* the virtual dispatch of step->perform(item) on the object self
dispatch(heap, self, item, depth) ==
    CASE self.kind = "CutWood" -> CutWoodPerform(item)
      [] self.kind = "DryWood" -> DryWoodPerform(item)
      [] self.kind = "TreatWood" -> TreatWoodPerform(item)
      [] self.kind = "ConditionalTreatment" ->
             ConditionalTreatmentPerform(heap, self, item, depth)

\* step->perform(item) on the action at pointer p, with the call recorded
perform(heap, p, item, depth) ==
    Let(dispatch(heap, heap[p], item, depth),
        LAMBDA r : Ran(r.item,
                       <<[act |-> p, depth |-> depth, before |-> item,
                          after |-> r.item]>> \o r.sub))

RECURSIVE processFrom(_, _, _)

\* the loop of WoodItem::process as it would be if it stopped at the first
\* step that left the item as it was
processFromStopping(heap, item, k) ==
    IF k > Len(item.processing_steps) THEN Ran(item, <<>>)
    ELSE Let(perform(heap, item.processing_steps[k], item, 0),
             LAMBDA r : IF r.item = item THEN r
                        ELSE Let(processFrom(heap, r.item, k + 1),
                                 LAMBDA rest : Ran(rest.item, r.sub \o rest.sub)))

\* the loop of WoodItem::process from step k on
processFrom(heap, item, k) ==
    IF k > Len(item.processing_steps) THEN Ran(item, <<>>)
    ELSE Let(perform(heap, item.processing_steps[k], item, 0),
             LAMBDA r : Let(processFrom(heap, r.item, k + 1),
                            LAMBDA rest : Ran(rest.item, r.sub \o rest.sub)))

\* WoodItem::process
process(heap, item) == processFrom(heap, item, 1)

\* one visit of process() to the item at pointer i, as history
Visit(i, before, r) ==
    [item |-> i, before |-> before, after |-> r.item, performed |-> r.sub]

RECURSIVE processAllFrom(_, _, _, _)
\* the loop of WoodInventory::processAll from position k on: the item heap
\* it leaves, and the visits made
processAllFrom(heap, its, inv, k) ==
    IF k > Len(inv) THEN [items |-> its, visits |-> <<>>]
    ELSE Let(process(heap, its[inv[k]]),
             LAMBDA r :
                 Let(processAllFrom(heap, [its EXCEPT ![inv[k]] = r.item], inv, k + 1),
                     LAMBDA rest :
                         [items |-> rest.items,
                          visits |-> <<Visit(inv[k], its[inv[k]], r)>> \o rest.visits]))

\* WoodInventory::processAll
processAll(heap, its, inv) == processAllFrom(heap, its, inv, 1)

\* WoodInventory::addItem as it would be if it inserted at the front
addItemFront(inv, item) == <<item>> \o inv

\* WoodInventory::addItem
addItem(inv, item) == Append(inv, item)

\* WoodInventory::getItems
getItems(inv) == inv

(***************************************************************************)
(* Destructors, as the deletes they execute.  Deleting an object twice is  *)
(* undefined behaviour; the counts record that it happened.                *)
(***************************************************************************)
RECURSIVE deleteAction(_, _, _)
\* delete step: ~ConditionalTreatment deletes inner_action, the others nothing
deleteAction(heap, frees, p) ==
    IF heap[p].kind = "ConditionalTreatment"
    THEN deleteAction(heap, [frees EXCEPT ![p] = @ + 1], heap[p].inner_action)
    ELSE [frees EXCEPT ![p] = @ + 1]

RECURSIVE deleteSteps(_, _, _, _)
\* the loop of ~WoodItem from step k on
deleteSteps(heap, frees, steps, k) ==
    IF k > Len(steps) THEN frees
    ELSE Let(deleteAction(heap, frees, steps[k]),
             LAMBDA f : deleteSteps(heap, f, steps, k + 1))

RECURSIVE deleteItems(_, _, _, _, _)
\* the loop of ~WoodInventory from position k on
deleteItems(heap, its, frees, inv, k) ==
    IF k > Len(inv) THEN frees
    ELSE Let([actionFrees |->
                  deleteSteps(heap, frees.actionFrees,
                              its[inv[k]].processing_steps, 1),
              itemFrees |-> [frees.itemFrees EXCEPT ![inv[k]] = @ + 1]],
             LAMBDA f : deleteItems(heap, its, f, inv, k + 1))

RECURSIVE deleteInventories(_, _, _, _, _)
\* the inventories of a scope are destroyed in reverse order of construction
deleteInventories(heap, its, frees, invs, v) ==
    IF v = 0 THEN frees
    ELSE Let(deleteItems(heap, its, frees, invs[v], 1),
             LAMBDA f : deleteInventories(heap, its, f, invs, v - 1))

(***************************************************************************)
(* Construction of actions: an expression such as                          *)
(*   new ConditionalTreatment(new TreatWood(), "MoistureAbove", 10.0)      *)
(* is a leaf and the conditions wrapped around it, outermost first; the    *)
(* innermost new runs first.                                               *)
(***************************************************************************)
Expr(leaf, conds) == [leaf |-> leaf, conds |-> conds]

Cond(type, value) == [type |-> type, value |-> value]

RECURSIVE newWrapped(_, _, _)
\* wraps the action at the end of the heap in conds[k], conds[k-1], ...
newWrapped(heap, conds, k) ==
    IF k = 0 THEN heap
    ELSE Let(Append(heap, ConditionalTreatment(Len(heap), conds[k].type,
                                               conds[k].value)),
             LAMBDA h : newWrapped(h, conds, k - 1))

\* the heap after evaluating the new-expression e; its result is the last object
newAction(heap, e) == newWrapped(Append(heap, e.leaf), e.conds, Len(e.conds))

RECURSIVE newSteps(_, _, _)
\* the initializer list { new ..., new ... } from element k on
newSteps(heap, exprs, k) ==
    IF k > Len(exprs) THEN [heap |-> heap, steps |-> <<>>]
    ELSE Let(newAction(heap, exprs[k]),
             LAMBDA h : Let(newSteps(h, exprs, k + 1),
                            LAMBDA rest : [heap |-> rest.heap,
                                           steps |-> <<Len(h)>> \o rest.steps]))

(***************************************************************************)
(* Bounds and inputs.                                                      *)
(***************************************************************************)
MaxItems == 2

MaxAdds == 2

MaxSteps == 2

MaxCalls == 2

ExprCut == Expr(CutWood(D2_5), <<>>)

ExprDry == Expr(DryWood, <<>>)

ExprTreat == Expr(TreatWood, <<>>)

ExprTreatAbove10 == Expr(TreatWood, <<Cond("MoistureAbove", D10)>>)

ExprDryAbove10 == Expr(DryWood, <<Cond("MoistureAbove", D10)>>)

ExprTreatBelow10 == Expr(TreatWood, <<Cond("MoistureBelow", D10)>>)

ExprTreatAbove10And12 ==
    Expr(TreatWood, <<Cond("MoistureAbove", D10), Cond("MoistureAbove", D12)>>)

\* the action expressions an item of the processing specification is built from
ActionInputs ==
    {ExprCut, ExprDry, ExprTreat, ExprTreatAbove10, ExprDryAbove10,
     ExprTreatBelow10, ExprTreatAbove10And12}

MoistureInputs ==
    {DNaN, DInf, DNeg10, DZero, DSub2, DSub3, D10, D12, D15}

\* the inputs of the inventory specification, which holds several items
SmallStepInputs == {<<ExprDry>>, <<ExprTreatAbove10>>}

SmallMoistureInputs == {D12}

\* sequences over S of length at most n
SeqsUpTo(S, n) == UNION {[1..k -> S] : k \in 0..n}

(***************************************************************************)
(* Operations.                                                             *)
(***************************************************************************)
\* History of a call: the operation, its receiver (an item or an inventory),
\* the item pointers it went through, the item heap before it, and its visits.
Call(op, arg, inv, before, visits) ==
    [op |-> op, arg |-> arg, inv |-> inv, pre |-> before, visits |-> visits]

NoCall == Call("none", 0, <<>>, <<>>, <<>>)

\* the heaps after `new WoodItem(t, thick, moisture, treated, { exprs })`
Constructed(heap, t, thick, moisture, treated, exprs) ==
    Let(newSteps(heap, exprs, 1),
        LAMBDA n : [actions |-> n.heap,
                    item |-> WoodItem(t, thick, moisture, treated, n.steps)])

\* new WoodItem(...), its steps freshly constructed as in every test
ConstructItem ==
    /\ phase = "run"
    /\ Len(items) < MaxItems
    /\ \E moisture \in SmallMoistureInputs, treated \in {FALSE},
          exprs \in SmallStepInputs :
          \E c \in {Constructed(actions, "Teak", D20, moisture, treated, exprs)} :
             /\ actions' = c.actions
             /\ items' = Append(items, c.item)
             /\ created' = Append(created, c.item)
             /\ actionFrees' = [p \in DOMAIN c.actions |-> 0]
    /\ itemFrees' = Append(itemFrees, 0)
    /\ calls' = Append(calls, 0)
    /\ UNCHANGED <<inventories, phase, added, lastCall>>

RECURSIVE SumTo(_, _)
\* f[1] + ... + f[k]
SumTo(f, k) == IF k = 0 THEN 0 ELSE f[k] + SumTo(f, k - 1)

\* the addItem calls made so far, over all inventories
TotalLen(invs) == SumTo([v \in DOMAIN invs |-> Len(invs[v])], Len(invs))

\* the process() calls made so far, over all items
TotalCalls == SumTo(calls, Len(calls))

\* inv.addItem(item), for any inventory and any item pointer the caller holds
AddItem ==
    /\ phase = "run"
    /\ \E v \in DOMAIN inventories, i \in DOMAIN items :
          /\ TotalLen(inventories) < MaxAdds
          /\ inventories' = [inventories EXCEPT ![v] = addItem(@, i)]
          /\ added' = [added EXCEPT ![v] = @ \o <<i>>]
    /\ UNCHANGED <<actions, items, phase, actionFrees, itemFrees, created,
                   calls, lastCall>>

\* item->process()
Process ==
    /\ phase = "run"
    /\ \E i \in DOMAIN items :
          /\ TotalCalls < MaxCalls
          /\ \E r \in {process(actions, items[i])} :
                /\ items' = [items EXCEPT ![i] = r.item]
                /\ lastCall' = Call("process", i, <<i>>, items,
                                    <<Visit(i, items[i], r)>>)
          /\ calls' = [calls EXCEPT ![i] = @ + 1]
    /\ UNCHANGED <<actions, inventories, phase, actionFrees, itemFrees,
                   created, added>>

\* how many times pointer i occurs in the vector inv
Occurrences(inv, i) == Cardinality({k \in DOMAIN inv : inv[k] = i})

\* inv.processAll()
ProcessAll ==
    /\ phase = "run"
    /\ \E v \in DOMAIN inventories :
          /\ TotalCalls + Len(inventories[v]) <= MaxCalls
          /\ \E r \in {processAll(actions, items, inventories[v])} :
                /\ items' = r.items
                /\ lastCall' = Call("processAll", v, inventories[v], items,
                                    r.visits)
          /\ calls' = [i \in DOMAIN items |->
                          calls[i] + Occurrences(inventories[v], i)]
    /\ UNCHANGED <<actions, inventories, phase, actionFrees, itemFrees,
                   created, added>>

\* the end of the scope: ~WoodInventory of every inventory
EndScope ==
    /\ phase = "run"
    /\ phase' = "done"
    /\ \E f \in {deleteInventories(actions, items,
                                   [actionFrees |-> actionFrees,
                                    itemFrees |-> itemFrees],
                                   inventories, Len(inventories))} :
          /\ actionFrees' = f.actionFrees
          /\ itemFrees' = f.itemFrees
    /\ UNCHANGED <<actions, items, inventories, created, added, calls,
                   lastCall>>

(***************************************************************************)
(* The inventory specification: any sequence of the operations of the      *)
(* classes, starting with two empty inventories in scope.                  *)
(***************************************************************************)
Init ==
    /\ actions = <<>>
    /\ items = <<>>
    /\ inventories = <<<<>>, <<>>>>
    /\ phase = "run"
    /\ actionFrees = <<>>
    /\ itemFrees = <<>>
    /\ created = <<>>
    /\ added = <<<<>>, <<>>>>
    /\ calls = <<>>
    /\ lastCall = NoCall

Next ==
    \/ ConstructItem
    \/ AddItem
    \/ ProcessAll
    \/ EndScope

Spec == Init /\ [][Next]_vars

(***************************************************************************)
(* The processing specification: one inventory and one item, constructed   *)
(* from any of the moisture values and action sequences of the inputs,     *)
(* then added and processed in any order.                                  *)
(***************************************************************************)
InitItem ==
    /\ \E moisture \in MoistureInputs, treated \in BOOLEAN,
          exprs \in SeqsUpTo(ActionInputs, MaxSteps) :
          \E c \in {Constructed(<<>>, "Teak", D20, moisture, treated, exprs)} :
             /\ actions = c.actions
             /\ items = <<c.item>>
             /\ created = <<c.item>>
             /\ actionFrees = [p \in DOMAIN c.actions |-> 0]
    /\ inventories = <<<<>>>>
    /\ phase = "run"
    /\ itemFrees = <<0>>
    /\ added = <<<<>>>>
    /\ calls = <<0>>
    /\ lastCall = NoCall

NextItem ==
    \/ AddItem
    \/ Process
    \/ ProcessAll

SpecItem == InitItem /\ [][NextItem]_vars

(***************************************************************************)
(* Properties.  The history of the last call is read through these.        *)
(***************************************************************************)
Range(f) == {f[k] : k \in DOMAIN f}

\* the perform calls of the last process()/processAll(): visit v, position k
LastPerforms ==
    UNION {{[v |-> v, k |-> k] : k \in DOMAIN lastCall.visits[v].performed} :
           v \in DOMAIN lastCall.visits}

PerformAt(c) == lastCall.visits[c.v].performed[c.k]

\* whether the call at c made a nested call: in the order of the calls, the
\* next one is one level deeper
InnerCalled(c) ==
    /\ c.k < Len(lastCall.visits[c.v].performed)
    /\ lastCall.visits[c.v].performed[c.k + 1].depth = PerformAt(c).depth + 1

\* whether the call at c is on a ConditionalTreatment wrapping a TreatWood
IsConditionalTreat(c) ==
    /\ actions[PerformAt(c).act].kind = "ConditionalTreatment"
    /\ actions[actions[PerformAt(c).act].inner_action].kind = "TreatWood"

\* C1: whatever the actions of an item and however often it is processed, its
\* thickness is the thickness it was constructed with, and no perform call
\* leaves an item with another thickness than it found.
C1_ThicknessUnchanged ==
    /\ \A i \in DOMAIN items : getThickness(items[i]) = getThickness(created[i])
    /\ \A c \in LastPerforms :
          getThickness(PerformAt(c).after) = getThickness(PerformAt(c).before)

\* an item processed twice, through a nested conditional, with its moisture
\* and its treatment both changed
C1_Witness ==
    \E i \in DOMAIN items :
       /\ calls[i] >= 2
       /\ getMoisture(items[i]) # getMoisture(created[i])
       /\ isTreated(items[i]) # isTreated(created[i])
       /\ \E c \in LastPerforms : PerformAt(c).depth = 2

\* C2: perform on ConditionalTreatment(TreatWood, "MoistureAbove", t) calls
\* TreatWood, leaving is_treated true and nothing else changed, exactly when
\* the moisture is strictly above t; otherwise it calls nothing and leaves the
\* item as it was.
C2_ConditionalTreatIffAbove ==
    \A c \in LastPerforms :
       (IsConditionalTreat(c)
          /\ actions[PerformAt(c).act].condition_type = "MoistureAbove")
       => IF GtDouble(getMoisture(PerformAt(c).before),
                      actions[PerformAt(c).act].condition_value)
          THEN /\ InnerCalled(c)
               /\ PerformAt(c).after = setTreated(PerformAt(c).before, TRUE)
          ELSE /\ ~InnerCalled(c)
               /\ PerformAt(c).after = PerformAt(c).before

\* the boundary: an untreated item whose moisture equals the threshold
C2_Witness ==
    \E c \in LastPerforms :
       /\ IsConditionalTreat(c)
       /\ actions[PerformAt(c).act].condition_type = "MoistureAbove"
       /\ getMoisture(PerformAt(c).before) = actions[PerformAt(c).act].condition_value
       /\ ~isTreated(PerformAt(c).before)
       /\ ~isTreated(PerformAt(c).after)

\* C3: the vector of an inventory is the sequence of the arguments of its
\* addItem calls, in the order of the calls, whatever processAll calls came
\* between them.
C3_InsertionOrderAndCount ==
    \A v \in DOMAIN inventories :
       /\ Len(getItems(inventories[v])) = Len(added[v])
       /\ \A k \in DOMAIN added[v] : getItems(inventories[v])[k] = added[v][k]

\* two items added in the order 2, 1 with a processAll between the two calls
C3_Witness ==
    \E v \in DOMAIN inventories :
       /\ inventories[v] = <<2, 1>>
       /\ lastCall.op = "processAll"
       /\ lastCall.arg = v
       /\ lastCall.inv = <<2>>

\* whether every step of item i is a DryWood, and there is at least one
AllDry(i) ==
    /\ items[i].processing_steps # <<>>
    /\ \A k \in DOMAIN items[i].processing_steps :
          actions[items[i].processing_steps[k]].kind = "DryWood"

\* the DryWood applications made on item i so far, when AllDry(i)
DryCount(i) == calls[i] * Len(items[i].processing_steps)

RECURSIVE DryTimes(_, _)
\* m after n multiplications by the double 0.8, each rounded
DryTimes(m, n) ==
    IF n = 0 THEN m
    ELSE Let(MulDouble(m, D0_8), LAMBDA x : DryTimes(x, n - 1))

RECURSIVE BPow(_, _)
\* b^n as a big natural, for a small b
BPow(b, n) == IF n = 0 THEN <<1>> ELSE Let(BPow(b, n - 1), LAMBDA x : BMulSmall(x, b))

Min(x, y) == IF x <= y THEN x ELSE y

\* |a| * 5^n and |b| * 4^n over the common power of two of the finite doubles
\* a and b, as big naturals
Scaled(a, b, n) ==
    Let(Min(Exp2(a), Exp2(b) + 2 * n),
        LAMBDA m : [lhs |-> BShl(BMul(Sig(a), BPow(5, n)), Exp2(a) - m),
                    rhs |-> BShl(Sig(b), Exp2(b) + 2 * n - m)])

\* a = b * 0.8^n in the real numbers, for finite doubles a and b
ExactlyScaled(a, b, n) ==
    /\ IsZero(a) \/ IsZero(b) \/ a.s = b.s
    /\ Let(Scaled(a, b, n), LAMBDA x : BCmp(x.lhs, x.rhs) = 0)

\* |a - b * 0.8^n| <= n * 2^-52 * |b * 0.8^n|, for finite doubles a and b
WithinRounding(a, b, n) ==
    /\ a.s = b.s
    /\ Let(Scaled(a, b, n),
           LAMBDA x :
              /\ BCmp(BShl(x.lhs, 52), BMul(x.rhs, <<n, 0, 0, 0, 1>>)) <= 0
              /\ BCmp(BMul(x.rhs, <<LimbBase - n, LimbBase - 1, LimbBase - 1,
                                    LimbBase - 1>>),
                      BShl(x.lhs, 52)) <= 0)

IsNormal(d) == d.e > 0 /\ d.e < ExpMax

\* C4 as stated: an item whose steps are all DryWood, constructed with the
\* finite moisture m, has exactly the moisture m * 0.8^n after n applications.
C4_ExactPower ==
    \A i \in DOMAIN items :
       (AllDry(i) /\ IsFinite(getMoisture(created[i])))
       => ExactlyScaled(getMoisture(items[i]), getMoisture(created[i]), DryCount(i))

\* C4 as amended: each DryWood call stores the double product of the moisture
\* and 0.8 and changes nothing else; an item whose steps are all DryWood has,
\* after n applications, the moisture of n such products in a row, which is
\* within a relative error of n * 2^-52 of m * 0.8^n while it is a normal
\* double.
C4_RoundedPower ==
    /\ \A c \in LastPerforms :
          actions[PerformAt(c).act].kind = "DryWood"
          => PerformAt(c).after =
                [PerformAt(c).before EXCEPT
                    !.moisture_content =
                        MulDouble(getMoisture(PerformAt(c).before), D0_8)]
    /\ \A i \in DOMAIN items :
          AllDry(i)
          => /\ getMoisture(items[i]) = DryTimes(getMoisture(created[i]), DryCount(i))
             /\ (IsNormal(getMoisture(items[i])) /\ DryCount(i) >= 1)
                => WithinRounding(getMoisture(items[i]), getMoisture(created[i]),
                                  DryCount(i))

\* an item with steps [DryWood, DryWood] and moisture 12 processed twice, its
\* moisture no longer exactly 12 * 0.8^4
C4_Witness ==
    \E i \in DOMAIN items :
       /\ AllDry(i)
       /\ Len(items[i].processing_steps) = 2
       /\ calls[i] = 2
       /\ getMoisture(created[i]) = D12
       /\ ~ExactlyScaled(getMoisture(items[i]), D12, 4)

\* whether item i has an unconditional DryWood among its steps
HasDryStep(i) ==
    \E k \in DOMAIN items[i].processing_steps :
       actions[items[i].processing_steps[k]].kind = "DryWood"

\* C5 as stated: after processAll, every item of the inventory that has an
\* unconditional DryWood step has a moisture strictly below the one it had
\* before the call, whatever that was.
C5_DryingReduces ==
    lastCall.op = "processAll"
    => \A i \in Range(lastCall.inv) :
          HasDryStep(i)
          => LtDouble(getMoisture(items[i]), getMoisture(lastCall.pre[i]))

\* C5 as amended: the same for every moisture before the call that is finite
\* and above 2^-1073, twice the smallest positive double.
C5_DryingReducesAboveTwoUnits ==
    lastCall.op = "processAll"
    => \A i \in Range(lastCall.inv) :
          (/\ HasDryStep(i)
           /\ IsFinite(getMoisture(lastCall.pre[i]))
           /\ GtDouble(getMoisture(lastCall.pre[i]), DSub2))
          => LtDouble(getMoisture(items[i]), getMoisture(lastCall.pre[i]))

\* the smallest moisture of the amended claim, 3 * 2^-1074, dried by processAll
C5_Witness ==
    /\ lastCall.op = "processAll"
    /\ \E i \in Range(lastCall.inv) :
          /\ HasDryStep(i)
          /\ getMoisture(lastCall.pre[i]) = DSub3
          /\ LtDouble(getMoisture(items[i]), DSub3)

\* the calls of a visit made by process() itself, in their order
TopCalls(w) == SelectSeq(w.performed, LAMBDA c : c.depth = 0)

\* whether the top-level calls t of visit w are its steps, each once, in
\* order, each on the item as the one before left it
StepsInOrder(w, t) ==
    /\ Len(t) = Len(w.before.processing_steps)
    /\ \A k \in DOMAIN t :
          /\ t[k].act = w.before.processing_steps[k]
          /\ t[k].before = IF k = 1 THEN w.before ELSE t[k - 1].after
    /\ w.after = IF t = <<>> THEN w.before ELSE t[Len(t)].after

\* C6: every process() call performs each step of the item once, in the order
\* of construction, each on the item as the previous step left it, to the end
\* of the sequence, whatever the earlier steps did.
C6_EveryStepOnceInOrder ==
    \A v \in DOMAIN lastCall.visits :
       \E t \in {TopCalls(lastCall.visits[v])} : StepsInOrder(lastCall.visits[v], t)

\* a process() whose first step, a ConditionalTreatment, did nothing and whose
\* second step changed the item
C6_Witness ==
    \E v \in DOMAIN lastCall.visits :
       \E t \in {TopCalls(lastCall.visits[v])} :
          /\ Len(t) = 2
          /\ actions[t[1].act].kind = "ConditionalTreatment"
          /\ t[1].after = t[1].before
          /\ t[2].after # t[2].before

\* C7: after processAll, every item of the inventory is as one process() of
\* its own steps on its own state before the call leaves it, and every other
\* item is as it was.
C7_OneProcessPerItem ==
    lastCall.op = "processAll"
    => \A i \in DOMAIN lastCall.pre :
          items[i] = IF i \in Range(lastCall.inv)
                     THEN process(actions, lastCall.pre[i]).item
                     ELSE lastCall.pre[i]

\* C8: perform on a ConditionalTreatment whose kind is not "MoistureAbove"
\* calls nothing and leaves the item as it was, whatever the moisture and the
\* threshold.
C8_UnrecognizedKindDoesNothing ==
    \A c \in LastPerforms :
       (/\ actions[PerformAt(c).act].kind = "ConditionalTreatment"
        /\ actions[PerformAt(c).act].condition_type # "MoistureAbove")
       => /\ ~InnerCalled(c)
          /\ PerformAt(c).after = PerformAt(c).before

\* an unrecognized kind met with a moisture above the threshold
C8_Witness ==
    \E c \in LastPerforms :
       /\ actions[PerformAt(c).act].kind = "ConditionalTreatment"
       /\ actions[PerformAt(c).act].condition_type = "MoistureBelow"
       /\ GtDouble(getMoisture(PerformAt(c).before),
                   actions[PerformAt(c).act].condition_value)

\* the owners of action p: the items with p among their steps, once per
\* occurrence, and the ConditionalTreatments wrapping p
Owners(p) ==
    (UNION {{<<"item", i, k>> : k \in {j \in DOMAIN items[i].processing_steps :
                                          items[i].processing_steps[j] = p}} :
            i \in DOMAIN items})
    \cup {<<"action", q, 0>> : q \in {r \in DOMAIN actions : actions[r].inner_action = p}}

\* the places of item i in the inventories
Holders(i) ==
    UNION {{<<v, k>> : k \in {j \in DOMAIN inventories[v] : inventories[v][j] = i}} :
           v \in DOMAIN inventories}

\* C9: no item is held twice, by two inventories or by one; no action has two
\* owners; and when the inventories are destroyed every item they hold and
\* every action of such an item is deleted exactly once.
C9_ExclusiveOwnership ==
    /\ \A i \in DOMAIN items : Cardinality(Holders(i)) <= 1
    /\ \A p \in DOMAIN actions : Cardinality(Owners(p)) <= 1
    /\ phase = "done"
       => /\ \A i \in DOMAIN items :
                itemFrees[i] = IF Holders(i) = {} THEN 0 ELSE 1
          /\ \A p \in DOMAIN actions : actionFrees[p] <= 1

NonNegative(d) == ~IsNaN(d) /\ ~LtDouble(d, DZero)

\* what C10 says of a state: no perform call on a non-negative moisture
\* leaves a larger or a negative one
C10_NoCallIncreases ==
    \A c \in LastPerforms :
       NonNegative(getMoisture(PerformAt(c).before))
       => /\ NonNegative(getMoisture(PerformAt(c).after))
          /\ ~GtDouble(getMoisture(PerformAt(c).after),
                       getMoisture(PerformAt(c).before))

\* what C10 says of a step: an item constructed with a non-negative moisture
\* keeps a non-negative moisture that does not increase, and once a process()
\* call has left it untreated it stays untreated
C10_Step ==
    \A i \in DOMAIN items :
       NonNegative(getMoisture(created[i]))
       => /\ NonNegative(getMoisture(items'[i]))
          /\ ~GtDouble(getMoisture(items'[i]), getMoisture(items[i]))
          /\ (calls[i] >= 1 /\ ~isTreated(items[i])) => ~isTreated(items'[i])

\* C10: for an item constructed with a non-negative moisture, moisture never
\* increases and never becomes negative, and an item untreated after one
\* process() call is untreated after every later one.
C10_MoistureMonotoneUntreatedStays ==
    []C10_NoCallIncreases /\ [][C10_Step]_vars

\* an untreated item with a conditional drying and a conditional treatment,
\* dried below its constructed non-negative moisture and processed twice
C10_Witness ==
    \E i \in DOMAIN items :
       /\ NonNegative(getMoisture(created[i]))
       /\ calls[i] >= 2
       /\ ~isTreated(items[i])
       /\ LtDouble(getMoisture(items[i]), getMoisture(created[i]))
       /\ \E k \in DOMAIN items[i].processing_steps :
             /\ actions[items[i].processing_steps[k]].kind = "ConditionalTreatment"
             /\ actions[items[i].processing_steps[k]].condition_type = "MoistureAbove"
             /\ actions[actions[items[i].processing_steps[k]].inner_action].kind
                   = "TreatWood"

====
